---- MODULE Spec2Model ----
(***************************************************************************)
(* Model of the dashboard client in docs/js/app.js.  The file holds two    *)
(* DashboardApp classes: the first (lines 2-765) keeps a dedup timestamp   *)
(* for the live feed and supports a custom time range; the second (lines   *)
(* 773-1346) prepends pushed readings to the live feed.  The variable      *)
(* variant says which of the two classes is running.                       *)
(*                                                                         *)
(* JavaScript is single threaded: a step of the model is one callback run  *)
(* to its next await (a timer tick, a DOM event, a push-stream event, or   *)
(* the continuation after a fetch settles).                                *)
(*                                                                         *)
(* Optional values (null / undefined / the empty string) are sequences of  *)
(* length 0; a present value v is the sequence <<v>>.                      *)
(***************************************************************************)
EXTENDS Integers, Sequences, FiniteSets, Bags, TLC

(* ------------------------------ bounds -------------------------------- *)

\* Requests that may be outstanding at once after the initial load.
MaxInflight == 2

\* Distinct newest timestamps the backend may report for /latest.
MaxTs == 2

\* How many readings beyond the requested limit a /latest response may carry.
Overshoot == 1

\* Rows in a non-empty /nodes, /decisions, /nodes/locations or /timeseries response.
MaxItems == 1

\* Pushed readings the live feed may show at once before the next poll renders.
MaxPushes == 2

\* Distinct hours the user may type into the custom range inputs, minus one.
MaxTimeSteps == 1

\* Milliseconds the clock may advance between the two clock reads of downloadCSV.
MaxClockSkew == 1

\* Points in a /timeseries response of the charts specification.
MaxPoints == 2

\* Rows in a /nodes/locations response of the map specification.
MaxLocations == 2

(* ------------------------- program constants --------------------------- *)

\* '/latest?limit=10', slice(0, 10) and 'children.length > 10'.
FeedCap == 10

None == <<>>
Some(v) == <<v>>
IsSome(o) == Len(o) > 0
Min(a, b) == IF a < b THEN a ELSE b

Resources == {"liveData", "nodeStats", "decisions", "map", "charts"}

\* Values of the timeRange select.  The second class has no custom range.
PresetOptions == {"6", "24"}
TimeRangeOptions(v) == IF v = 1 THEN PresetOptions \cup {"custom"} ELSE PresetOptions

\* Values of the heatmapMetric select exercised here.
HeatMetrics == {"temperature", "humidity"}

\* hours * 60 * 60 * 1000 and the fields of an ISO instant.
MsPerSecond == 1000
MsPerMinute == 60 * MsPerSecond
MsPerHour == 60 * MsPerMinute
MsPerDay == 24 * MsPerHour

\* Values Date.now() may return when the export button is clicked, in
\* milliseconds since 2024-01-01T00:00:00.000Z: 2024-01-02T00:00:00.000Z and
\* 2024-01-02T03:30:15.250Z.
ClockReadings == {MsPerDay, MsPerDay + 3 * MsPerHour + 30 * MsPerMinute + 15250}

\* Values of the startTime / endTime inputs: "" or <<hour, minute>> of one day.
InputTimes == {None} \cup {<<h, 0>> : h \in 9..(9 + MaxTimeSteps)}

(* ------------------------------ payloads ------------------------------ *)

Reading(t) == [node_id |-> "n1", timestamp |-> t]

\* A /latest response: n readings, newest first, the newest stamped h.
MkBatch(h, n) == [i \in 1..n |-> Reading(h - i + 1)]
LiveBatches == {MkBatch(h, n) : h \in 1..MaxTs, n \in {0, 1, FeedCap, FeedCap + Overshoot}}

\* The reading a push-stream message carries (second class).
PushReadings == {Reading(MaxTs + 1)}

Rows(n) == [i \in 1..n |-> i]
RowPayloads == {Rows(n) : n \in 0..MaxItems}

Location(i) == [node_id |-> i, lat |-> Some(40 + i), lon |-> Some(i),
                avg_temp |-> Some(20 + i), avg_humidity |-> Some(50)]
LocationPayloads == {[i \in 1..n |-> Location(i)] : n \in 0..MaxItems}

Point(i) == [node_id |-> "n1", timestamp |-> 60 * i,
             avg_temp |-> Some(20 + i), avg_humidity |-> None]
PointPayloads == {[i \in 1..n |-> Point(i)] : n \in 0..MaxItems}

\* Sequences of at most n elements of S.
SeqsUpTo(S, n) == UNION {[1..k -> S] : k \in 0..n}

\* /timeseries rows of two nodes, in two different minutes, with and without
\* a temperature average.
RichPoints ==
    {[node_id |-> id, timestamp |-> t, avg_temp |-> temp, avg_humidity |-> None] :
        id \in {"n1", "n2"}, t \in {60, 120}, temp \in {None, Some(21)}}
\* The backend reports one row per node and time bucket.
RichPointPayloads ==
    {d \in SeqsUpTo(RichPoints, MaxPoints) :
        \A i, j \in 1..Len(d) :
            (d[i].node_id = d[j].node_id /\ d[i].timestamp = d[j].timestamp) => i = j}

\* /nodes/locations rows with and without lat, lon and the metric averages.
RichLocations ==
    {[node_id |-> 1, lat |-> lat, lon |-> lon, avg_temp |-> avg[1], avg_humidity |-> avg[2]] :
        lat \in {None, Some(0), Some(41)}, lon \in {None, Some(1)},
        avg \in {<<None, None>>, <<Some(0), Some(0)>>, <<Some(21), Some(50)>>}}
RichLocationPayloads == SeqsUpTo(RichLocations, MaxLocations)

Payloads(res) ==
    CASE res = "liveData" -> LiveBatches
      [] res = "nodeStats" -> RowPayloads
      [] res = "decisions" -> RowPayloads
      [] res = "map" -> LocationPayloads
      [] res = "charts" -> PointPayloads

\* What a fetch can settle with: a failure (transport error, non-2xx status,
\* unreadable body) or a parsed array.
Failure == [ok |-> FALSE, data |-> <<>>]
Responses(res) == {Failure} \cup {[ok |-> TRUE, data |-> d] : d \in Payloads(res)}
RichChartResponses == {Failure} \cup {[ok |-> TRUE, data |-> d] : d \in RichPointPayloads}
RichMapResponses == {Failure} \cup {[ok |-> TRUE, data |-> d] : d \in RichLocationPayloads}

\* The second class hands lat and lon to L.marker unchecked; what the map
\* library does with a missing coordinate is not in this source, so the
\* second class is given rows that carry both.
RichMapResponsesOf(v) ==
    IF v = 1 THEN RichMapResponses
    ELSE {resp \in RichMapResponses :
            \A i \in 1..Len(resp.data) :
                IsSome(resp.data[i].lat) /\ IsSome(resp.data[i].lon)}

(* ------------------------------- state -------------------------------- *)

VARIABLES
    variant,                \* 1: first DashboardApp class, 2: second
    pc,                     \* position of init(): "loading", "settled", "running"
    isConnected,            \* this.isConnected
    customTimeRange,        \* this.customTimeRange
    isCustomRange,          \* this.isCustomRange
    lastLiveDataTimestamp,  \* this.lastLiveDataTimestamp
    timeRange,              \* value of the timeRange select
    heatmapMetric,          \* value of the heatmapMetric select
    customRangeControls,    \* style.display of #customRangeControls
    liveDataContainer,      \* children of #liveDataContainer
    nodeStatsContainer,     \* children of #nodeStatsContainer
    decisionsContainer,     \* children of #decisionsContainer
    mapView,                \* markers and heat layer on the map
    chartsView,             \* labels and datasets of the charts
    inflight,               \* bag of fetches that have not settled
    lastOutcome,            \* history: the most recent fetch / stream outcome:
                            \* "up" (response, stream message), "fetchFailed"
                            \* or "streamError"
    dedupSkipped,           \* history: the last /latest response was dropped
                            \* by the timestamp comparison of fetchLiveData
    liveOverlapped,         \* history: a /latest request still outstanding
                            \* was in flight when the last /latest response
                            \* was processed
    awaitingApply           \* history: "custom" selected, no range applied since

vars == <<variant, pc, isConnected, customTimeRange, isCustomRange,
          lastLiveDataTimestamp, timeRange, heatmapMetric, customRangeControls,
          liveDataContainer,
          nodeStatsContainer, decisionsContainer, mapView, chartsView,
          inflight, lastOutcome, dedupSkipped, liveOverlapped, awaitingApply>>

appVars == <<customTimeRange, isCustomRange, lastLiveDataTimestamp>>
domVars == <<timeRange, heatmapMetric, customRangeControls>>
viewVars == <<liveDataContainer, nodeStatsContainer, decisionsContainer,
              mapView, chartsView>>

(* --------------------------- pure functions --------------------------- *)

\* JavaScript truthiness of an optional number: missing and 0 are falsy.
Truthy(o) == IsSome(o) /\ o[1] # 0

\* A container showing only its '<p class="loading">' placeholder.
Placeholder == [loading |-> TRUE, items |-> <<>>]

\* updateLiveDataFeed of the first class: at most 10 items are rendered.
UpdateLiveDataFeed1(dataArray) ==
    IF Len(dataArray) = 0
    THEN Placeholder
    ELSE [loading |-> FALSE,
          items |-> SubSeq(dataArray, 1, Min(Len(dataArray), FeedCap))]

\* updateLiveDataFeed of the second class: every item is rendered.
UpdateLiveDataFeed2(dataArray) ==
    IF Len(dataArray) = 0
    THEN Placeholder
    ELSE [loading |-> FALSE, items |-> dataArray]

UpdateLiveDataFeed(v, dataArray) ==
    IF v = 1 THEN UpdateLiveDataFeed1(dataArray) ELSE UpdateLiveDataFeed2(dataArray)

\* The while loop of addToLiveDataFeed: drop the last child while more than 10.
RECURSIVE TrimToCap(_)
TrimToCap(children) ==
    IF Len(children) > FeedCap
    THEN TrimToCap(SubSeq(children, 1, Len(children) - 1))
    ELSE children

\* Mutant of AddToLiveDataFeed: the new item is appended at the bottom.
AddToLiveDataFeedAtBottom(container, data) ==
    [loading |-> FALSE, items |-> TrimToCap(container.items \o <<data>>)]

\* addToLiveDataFeed (second class): remove the placeholder, insert at the
\* top, keep the latest 10.
AddToLiveDataFeed(container, data) ==
    [loading |-> FALSE, items |-> TrimToCap(<<data>> \o container.items)]

\* updateNodeStats / updateDecisions: placeholder for an empty array, else one
\* card per row.
UpdateCards(rows) ==
    IF Len(rows) = 0 THEN Placeholder ELSE [loading |-> FALSE, items |-> rows]

\* location[`avg_${heatMetric}`]: undefined when the row has no such field.
MetricValue1(location, metric) ==
    LET f == "avg_" \o metric
    IN  IF f \in DOMAIN location THEN location[f] ELSE None

RECURSIVE HeatPoints1(_, _)
HeatPoints1(locations, metric) ==
    IF Len(locations) = 0 THEN <<>>
    ELSE LET l == Head(locations)
             rest == HeatPoints1(Tail(locations), metric)
             m == MetricValue1(l, metric)
         IN  IF ~Truthy(l.lat) \/ ~Truthy(l.lon) THEN rest
             ELSE IF IsSome(m) THEN <<<<l.lat[1], l.lon[1], m[1]>>>> \o rest
             ELSE rest

RECURSIVE Markers1(_)
Markers1(locations) ==
    IF Len(locations) = 0 THEN <<>>
    ELSE LET l == Head(locations)
         IN  IF ~Truthy(l.lat) \/ ~Truthy(l.lon) THEN Markers1(Tail(locations))
             ELSE <<<<l.lat, l.lon>>>> \o Markers1(Tail(locations))

\* updateMap of the first class: an empty array returns before anything is
\* cleared.
UpdateMap1(view, locations, metric) ==
    IF Len(locations) = 0 THEN view
    ELSE [markers |-> Markers1(locations), heat |-> HeatPoints1(locations, metric)]

\* The switch of the second class: node.avg_x || 0, no case for other metrics.
Intensity2(node, metric) ==
    LET o == CASE metric = "temperature" -> node.avg_temp
               [] metric = "humidity" -> node.avg_humidity
               [] OTHER -> None
    IN  IF Truthy(o) THEN o[1] ELSE 0

\* heatData.push([node.lat, node.lon, intensity / 100]); the quotient is kept
\* as the pair <<intensity, 100>>.
HeatData2(nodesData, metric) ==
    [i \in 1..Len(nodesData) |->
        <<nodesData[i].lat, nodesData[i].lon, <<Intensity2(nodesData[i], metric), 100>>>>]

\* updateMap of the second class: markers and heat layer are cleared first.
UpdateMap2(view, nodesData, metric) ==
    IF Len(nodesData) = 0 THEN [markers |-> <<>>, heat |-> <<>>]
    ELSE [markers |-> [i \in 1..Len(nodesData) |-> <<nodesData[i].lat, nodesData[i].lon>>],
          heat |-> HeatData2(nodesData, metric)]

UpdateMap(v, view, locations, metric) ==
    IF v = 1 THEN UpdateMap1(view, locations, metric)
    ELSE UpdateMap2(view, locations, metric)

\* toLocaleString with minute precision: the seconds of the instant are lost.
FormatLabel(timestamp) == timestamp \div 60

\* [...new Set(...)] / filter(indexOf === i): distinct values, first
\* occurrence order.
RECURSIVE Distinct(_)
Distinct(s) ==
    IF Len(s) = 0 THEN <<>>
    ELSE LET front == Distinct(SubSeq(s, 1, Len(s) - 1))
             x == s[Len(s)]
         IN  IF \E i \in 1..Len(front) : front[i] = x THEN front ELSE Append(front, x)

ChartLabels(data) == Distinct([i \in 1..Len(data) |-> FormatLabel(data[i].timestamp)])

NodeIds(data) == Distinct([i \in 1..Len(data) |-> data[i].node_id])

\* nodeData[nodeId]: the points of one node, in input order.
PointsOf(data, nodeId) == SelectSeq(data, LAMBDA p : p.node_id = nodeId)

\* One dataset per node; data holds the node's values for a metric.
Datasets(data, field) ==
    LET ids == NodeIds(data)
    IN  [k \in 1..Len(ids) |->
            [label |-> ids[k],
             data |-> [j \in 1..Len(PointsOf(data, ids[k])) |->
                          PointsOf(data, ids[k])[j][field]]]]

\* updateCharts (both classes): an empty array returns before any chart is
\* touched.
UpdateCharts(view, timeSeriesData) ==
    IF Len(timeSeriesData) = 0 THEN view
    ELSE [labels |-> ChartLabels(timeSeriesData),
          temperature |-> Datasets(timeSeriesData, "avg_temp"),
          humidity |-> Datasets(timeSeriesData, "avg_humidity")]

NoCharts == [labels |-> <<>>, temperature |-> <<>>, humidity |-> <<>>]
NoMap == [markers |-> <<>>, heat |-> <<>>]

\* new Date(value) of a datetime-local value <<hour, minute>>, in minutes.
ParseDate(value) == value[1] * 60 + value[2]

\* Mutant of WithSeconds: the value is sent as typed.
WithoutSeconds(value) == value

\* value + ':00'
WithSeconds(value) == value \o <<0>>

NoRange == [start |-> None, end |-> None]

\* The endpoint fetchTimeSeriesData asks for; None when it returns without
\* fetching.
TimeSeriesEndpoint1(custom, range, hours) ==
    IF custom /\ IsSome(range.start) /\ IsSome(range.end)
    THEN Some([hours |-> "", start |-> WithSeconds(range.start),
               end |-> WithSeconds(range.end)])
    ELSE IF hours = "custom" THEN None
    ELSE Some([hours |-> hours, start |-> None, end |-> None])

TimeSeriesEndpoint2(custom, range, hours) ==
    Some([hours |-> hours, start |-> None, end |-> None])

TimeSeriesEndpoint(v, custom, range, hours) ==
    IF v = 1 THEN TimeSeriesEndpoint1(custom, range, hours)
    ELSE TimeSeriesEndpoint2(custom, range, hours)

NoParams == [hours |-> "", start |-> None, end |-> None]

Request(res, ep) == [res |-> res, ep |-> ep]

\* The requests fetchLiveData .. fetchNodeLocations issue.
Plain(res) == Request(res, NoParams)

\* The requests one call of fetchTimeSeriesData issues: none or one.
TimeSeriesRequests(v, custom, range, hours) ==
    LET ep == TimeSeriesEndpoint(v, custom, range, hours)
    IN  IF IsSome(ep) THEN SetToBag({Request("charts", ep[1])}) ELSE EmptyBag

\* The number a select value becomes in 'hours * 60 * 60 * 1000'.
HoursNumber(hours) ==
    CASE hours = "6" -> 6
      [] hours = "24" -> 24

\* Date.prototype.toISOString: the UTC fields <<day, hour, minute, second,
\* millisecond>> of an instant, days counted from 2024-01-01.
ToISOString(ms) ==
    <<ms \div MsPerDay, (ms \div MsPerHour) % 24, (ms \div MsPerMinute) % 60,
      (ms \div MsPerSecond) % 60, ms % MsPerSecond>>

\* Mutant of ExportParams: the preset window is laid after the clock reading
\* instead of before it.
ExportParamsAhead(custom, range, hours, endRead, startRead) ==
    IF custom /\ IsSome(range.start) /\ IsSome(range.end)
    THEN [hours |-> "", start |-> WithSeconds(range.start),
          end |-> WithSeconds(range.end)]
    ELSE IF hours # "custom"
    THEN [hours |-> "",
          start |-> ToISOString(startRead + HoursNumber(hours) * MsPerHour),
          end |-> ToISOString(endRead)]
    ELSE NoParams

\* The query parameters downloadCSV appends; endRead is the clock value of
\* 'new Date()', startRead the one of the later 'Date.now()'.
ExportParams(custom, range, hours, endRead, startRead) ==
    IF custom /\ IsSome(range.start) /\ IsSome(range.end)
    THEN [hours |-> "", start |-> WithSeconds(range.start),
          end |-> WithSeconds(range.end)]
    ELSE IF hours # "custom"
    THEN [hours |-> "",
          start |-> ToISOString(startRead - HoursNumber(hours) * MsPerHour),
          end |-> ToISOString(endRead)]
    ELSE NoParams

\* fetchAPI: the value the caller receives.
FetchAPI(resp) == IF resp.ok THEN Some(resp.data) ELSE None

\* fetchAPI: the catch block calls updateConnectionStatus(false); a
\* successful response leaves the flag alone.
ConnectionAfterFetch(connected, resp) == IF resp.ok THEN connected ELSE FALSE

(* ------------------------------- Init --------------------------------- *)

\* The five fetches fetchAllData starts before its first await.
InitialRequests(v, hours) ==
    SetToBag({Plain("liveData"), Plain("nodeStats"), Plain("decisions"), Plain("map")})
        (+) TimeSeriesRequests(v, FALSE, NoRange, hours)

\* The constructor has run and init() is suspended in 'await this.fetchAllData()'.
Init ==
    /\ variant \in {1, 2}
    /\ pc = "loading"
    /\ isConnected = FALSE
    /\ customTimeRange = NoRange
    /\ isCustomRange = FALSE
    /\ lastLiveDataTimestamp = None
    /\ timeRange = "24"
    /\ heatmapMetric = "temperature"
    /\ customRangeControls = "none"
    /\ liveDataContainer = Placeholder
    /\ nodeStatsContainer = Placeholder
    /\ decisionsContainer = Placeholder
    /\ mapView = NoMap
    /\ chartsView = NoCharts
    /\ inflight = InitialRequests(variant, timeRange)
    /\ lastOutcome = "none"
    /\ dedupSkipped = FALSE
    /\ liveOverlapped = FALSE
    /\ awaitingApply = FALSE

(* --------------------------- fetch settles ---------------------------- *)

\* Promise.all of fetchAllData resolves when the last initial fetch has been
\* handled.
PcAfterSettle(position, pending) ==
    IF position = "loading" /\ pending = EmptyBag THEN "settled" ELSE position

\* The part every fetch continuation shares: fetchAPI returns or catches.
Settle(req, resp) ==
    /\ pc \in {"loading", "running"}
    /\ BagIn(req, inflight)
    /\ inflight' = inflight (-) SetToBag({req})
    /\ isConnected' = ConnectionAfterFetch(isConnected, resp)
    /\ lastOutcome' = IF resp.ok THEN "up" ELSE "fetchFailed"
    /\ pc' = PcAfterSettle(pc, inflight')
    /\ UNCHANGED <<variant, customTimeRange, isCustomRange, domVars, awaitingApply>>

\* Mutant of LiveDataChanged: the timestamp comparison is dropped.
LiveDataChangedAlways(last, data) == TRUE

\* Whether fetchLiveData of the first class renders a non-empty batch.
LiveDataChanged(last, data) == ~IsSome(last) \/ data[1].timestamp # last[1]

\* fetchLiveData of the first class after 'await this.fetchAPI(...)'.
LiveDataFeedAfter1(container, last, data) ==
    IF IsSome(data) /\ Len(data[1]) > 0
    THEN IF LiveDataChanged(last, data[1])
         THEN UpdateLiveDataFeed1(data[1])
         ELSE container
    ELSE IF IsSome(data) THEN UpdateLiveDataFeed1(data[1])
    ELSE container

\* Mutant of LastTimestampAfter1: an empty batch resets the marker.
LastTimestampAfterReset(last, data) ==
    IF IsSome(data) /\ Len(data[1]) = 0 THEN None
    ELSE IF IsSome(data) /\ LiveDataChanged(last, data[1])
    THEN Some(data[1][1].timestamp)
    ELSE last

LastTimestampAfter1(last, data) ==
    IF IsSome(data) /\ Len(data[1]) > 0 /\ LiveDataChanged(last, data[1])
    THEN Some(data[1][1].timestamp)
    ELSE last

\* fetchLiveData of the second class: if (data) this.updateLiveDataFeed(data).
LiveDataFeedAfter2(container, data) ==
    IF IsSome(data) THEN UpdateLiveDataFeed2(data[1]) ELSE container

SettleLiveData(resp) ==
    /\ Settle(Plain("liveData"), resp)
    /\ liveDataContainer' =
          IF variant = 1
          THEN LiveDataFeedAfter1(liveDataContainer, lastLiveDataTimestamp, FetchAPI(resp))
          ELSE LiveDataFeedAfter2(liveDataContainer, FetchAPI(resp))
    /\ lastLiveDataTimestamp' =
          IF variant = 1
          THEN LastTimestampAfter1(lastLiveDataTimestamp, FetchAPI(resp))
          ELSE lastLiveDataTimestamp
    /\ dedupSkipped' = /\ variant = 1
                       /\ resp.ok
                       /\ Len(resp.data) > 0
                       /\ ~LiveDataChanged(lastLiveDataTimestamp, resp.data)
    /\ liveOverlapped' = BagIn(Plain("liveData"), inflight')
    /\ UNCHANGED <<nodeStatsContainer, decisionsContainer, mapView, chartsView>>

\* Mutant of CardsAfter: a failed fetch blanks the container.
CardsAfterBlanking(container, data) ==
    IF IsSome(data) THEN UpdateCards(data[1]) ELSE Placeholder

\* if (data) this.updateNodeStats(data) / this.updateDecisions(data)
CardsAfter(container, data) ==
    IF IsSome(data) THEN UpdateCards(data[1]) ELSE container

SettleNodeStats(resp) ==
    /\ Settle(Plain("nodeStats"), resp)
    /\ nodeStatsContainer' = CardsAfter(nodeStatsContainer, FetchAPI(resp))
    /\ UNCHANGED <<liveDataContainer, lastLiveDataTimestamp, decisionsContainer,
                   mapView, chartsView, dedupSkipped,
                   liveOverlapped>>

SettleDecisions(resp) ==
    /\ Settle(Plain("decisions"), resp)
    /\ decisionsContainer' = CardsAfter(decisionsContainer, FetchAPI(resp))
    /\ UNCHANGED <<liveDataContainer, lastLiveDataTimestamp, nodeStatsContainer,
                   mapView, chartsView, dedupSkipped,
                   liveOverlapped>>

\* if (data) this.updateMap(data)
MapAfter(v, view, data, metric) ==
    IF IsSome(data) THEN UpdateMap(v, view, data[1], metric) ELSE view

SettleNodeLocations(resp) ==
    /\ Settle(Plain("map"), resp)
    /\ mapView' = MapAfter(variant, mapView, FetchAPI(resp), heatmapMetric)
    /\ UNCHANGED <<liveDataContainer, lastLiveDataTimestamp, nodeStatsContainer,
                   decisionsContainer, chartsView, dedupSkipped,
                   liveOverlapped>>

\* Mutant of ChartsAfter: the charts are never redrawn.
ChartsAfterDropped(view, data) == view

\* if (data) this.updateCharts(data)
ChartsAfter(view, data) ==
    IF IsSome(data) THEN UpdateCharts(view, data[1]) ELSE view

SettleTimeSeries(req, resp) ==
    /\ req.res = "charts"
    /\ Settle(req, resp)
    /\ chartsView' = ChartsAfter(chartsView, FetchAPI(resp))
    /\ UNCHANGED <<liveDataContainer, lastLiveDataTimestamp, nodeStatsContainer,
                   decisionsContainer, mapView, dedupSkipped,
                   liveOverlapped>>

\* Mutant of InitComplete: a failed fetch of the initial load rejects
\* Promise.all and init() stops before the timers are installed.
InitCompleteUnlessFailed ==
    /\ pc = "settled"
    /\ lastOutcome # "fetchFailed"
    /\ isConnected' = TRUE
    /\ pc' = "running"
    /\ UNCHANGED <<variant, appVars, domVars, viewVars, inflight, lastOutcome,
                   awaitingApply, dedupSkipped,
                   liveOverlapped>>

\* fetchAllData after Promise.all, then the rest of init(): the push stream,
\* the five timers and the listeners are installed.
InitComplete ==
    /\ pc = "settled"
    /\ isConnected' = TRUE
    /\ pc' = "running"
    /\ UNCHANGED <<variant, appVars, domVars, viewVars, inflight, lastOutcome,
                   awaitingApply, dedupSkipped,
                   liveOverlapped>>

(* ------------------------------ timers -------------------------------- *)

\* A bound on the schedule, not code: after the initial load at most
\* MaxInflight fetches are outstanding, and they overlap only with fetches of
\* the same resource or with fetches the same callback started.  A callback
\* that starts a fetch reads nothing a continuation of another resource
\* writes, so the other interleavings reach the same states.
Room(requests) ==
    LET after == inflight (+) requests
    IN  /\ BagCardinality(after) <= MaxInflight
        /\ \/ inflight = EmptyBag
           \/ Cardinality({r.res : r \in BagToSet(after)}) <= 1

\* Mutant of Issue: timers, stream and listeners are live during the load.
IssueBeforeLoaded(requests) ==
    /\ Room(requests)
    /\ inflight' = inflight (+) requests

\* A callback that only starts fetches.
Issue(requests) ==
    /\ pc = "running"
    /\ Room(requests)
    /\ inflight' = inflight (+) requests

TickLiveData ==
    /\ Issue(SetToBag({Plain("liveData")}))
    /\ UNCHANGED <<variant, pc, isConnected, appVars, domVars, viewVars,
                   lastOutcome, awaitingApply, dedupSkipped,
                   liveOverlapped>>

TickNodeStats ==
    /\ Issue(SetToBag({Plain("nodeStats")}))
    /\ UNCHANGED <<variant, pc, isConnected, appVars, domVars, viewVars,
                   lastOutcome, awaitingApply, dedupSkipped,
                   liveOverlapped>>

TickDecisions ==
    /\ Issue(SetToBag({Plain("decisions")}))
    /\ UNCHANGED <<variant, pc, isConnected, appVars, domVars, viewVars,
                   lastOutcome, awaitingApply, dedupSkipped,
                   liveOverlapped>>

TickNodeLocations ==
    /\ Issue(SetToBag({Plain("map")}))
    /\ UNCHANGED <<variant, pc, isConnected, appVars, domVars, viewVars,
                   lastOutcome, awaitingApply, dedupSkipped,
                   liveOverlapped>>

TickTimeSeries ==
    /\ Issue(TimeSeriesRequests(variant, isCustomRange, customTimeRange, timeRange))
    /\ UNCHANGED <<variant, pc, isConnected, appVars, domVars, viewVars,
                   lastOutcome, awaitingApply, dedupSkipped,
                   liveOverlapped>>

(* ---------------------------- DOM events ------------------------------ *)

\* The user picks another time range while init() still awaits the initial
\* load: the select changes, no listener is installed yet.
SelectTimeRangeWhileLoading(value) ==
    /\ pc = "loading"
    /\ value \in TimeRangeOptions(variant)
    /\ value # timeRange
    /\ timeRange' = value
    /\ awaitingApply' = (value = "custom")
    /\ UNCHANGED <<variant, pc, isConnected, appVars, heatmapMetric,
                   customRangeControls, viewVars, inflight, lastOutcome, dedupSkipped,
                   liveOverlapped>>

\* isCustomRange after the 'change' listener of the timeRange select.
CustomAfterChange(v, custom, value) == IF v = 1 THEN value = "custom" ELSE custom

ControlsAfterChange(v, display, value) ==
    IF v = 1 THEN (IF value = "custom" THEN "flex" ELSE "none") ELSE display

\* What the 'change' listener of the timeRange select fetches.
RequestsOnChange(v, range, value) ==
    IF v = 1 /\ value = "custom" THEN EmptyBag
    ELSE TimeSeriesRequests(v, CustomAfterChange(v, FALSE, value), range, value)

TimeRangeChange(value) ==
    /\ value \in TimeRangeOptions(variant)
    /\ value # timeRange
    /\ Issue(RequestsOnChange(variant, customTimeRange, value))
    /\ timeRange' = value
    /\ isCustomRange' = CustomAfterChange(variant, isCustomRange, value)
    /\ customRangeControls' = ControlsAfterChange(variant, customRangeControls, value)
    /\ awaitingApply' = (value = "custom")
    /\ UNCHANGED <<variant, pc, isConnected, customTimeRange, lastLiveDataTimestamp,
                   heatmapMetric, viewVars, lastOutcome, dedupSkipped,
                   liveOverlapped>>

\* Mutant of RangeRejected: '>' where the listener has '>='.
RangeRejectedStrict(start, end) ==
    \/ ~IsSome(start)
    \/ ~IsSome(end)
    \/ ParseDate(start) > ParseDate(end)

\* The two alerts of the applyCustomRange click listener.
RangeRejected(start, end) ==
    \/ ~IsSome(start)
    \/ ~IsSome(end)
    \/ ParseDate(start) >= ParseDate(end)

\* Click on applyCustomRange (first class) with the inputs holding start, end.
ApplyCustomRange(start, end) ==
    /\ variant = 1
    /\ customRangeControls = "flex"
    /\ start \in InputTimes
    /\ end \in InputTimes
    /\ IF RangeRejected(start, end)
       THEN /\ pc = "running"
            /\ UNCHANGED <<customTimeRange, isCustomRange, inflight, awaitingApply>>
       ELSE /\ Issue(TimeSeriesRequests(variant, TRUE, [start |-> start, end |-> end],
                                        timeRange))
            /\ customTimeRange' = [start |-> start, end |-> end]
            /\ isCustomRange' = TRUE
            /\ awaitingApply' = FALSE
    /\ UNCHANGED <<variant, pc, isConnected, lastLiveDataTimestamp, domVars,
                   viewVars, lastOutcome, dedupSkipped,
                   liveOverlapped>>

\* 'change' on the heatmapMetric select: this.fetchNodeLocations().
HeatmapMetricChange(value) ==
    /\ value \in HeatMetrics
    /\ value # heatmapMetric
    /\ Issue(SetToBag({Plain("map")}))
    /\ heatmapMetric' = value
    /\ UNCHANGED <<variant, pc, isConnected, appVars, timeRange, customRangeControls,
                   viewVars, lastOutcome, awaitingApply, dedupSkipped,
                   liveOverlapped>>

\* Click on downloadCsvBtn (first class): the URL is built and fetched, with
\* or without parameters.  One export is outstanding at a time (a bound on
\* the schedule, not code).
DownloadCSV(endRead, startRead) ==
    /\ variant = 1
    /\ endRead \in ClockReadings
    /\ startRead \in endRead..(endRead + MaxClockSkew)
    /\ inflight = EmptyBag
    /\ Issue(SetToBag({Request("export",
              ExportParams(isCustomRange, customTimeRange, timeRange, endRead, startRead))}))
    /\ UNCHANGED <<variant, pc, isConnected, appVars, domVars, viewVars,
                   lastOutcome, awaitingApply, dedupSkipped,
                   liveOverlapped>>

\* downloadCSV after 'await fetch(url)': with ok the file is saved; without
\* (fetch rejected, or response.ok false and the throw of line 738) the
\* catch logs and shows the alert.  Neither touches the dashboard state.
SettleExport(req, ok) ==
    /\ ok \in BOOLEAN
    /\ req.res = "export"
    /\ pc = "running"
    /\ BagIn(req, inflight)
    /\ inflight' = inflight (-) SetToBag({req})
    /\ UNCHANGED <<variant, pc, isConnected, appVars, domVars, viewVars,
                   lastOutcome, awaitingApply, dedupSkipped,
                   liveOverlapped>>

(* ---------------------------- push stream ----------------------------- *)

\* Pushed readings among the items of the live feed (a bound on the
\* schedule, not code).
PushedShown(container) ==
    Cardinality({i \in 1..Len(container.items) : container.items[i] \in PushReadings})

\* What onmessage fetches once JSON.parse has succeeded.
RequestsOnMessage(v, custom, range, hours) ==
    IF v = 1 THEN TimeSeriesRequests(v, custom, range, hours)
    ELSE SetToBag({Plain("nodeStats"), Plain("decisions")})

\* onmessage with a body that parses: the first class refreshes the charts,
\* the second runs handleRealtimeUpdate(data); both then report connected.
SSEMessage(data) ==
    /\ data \in PushReadings
    /\ variant = 2 => PushedShown(liveDataContainer) < MaxPushes
    /\ Issue(RequestsOnMessage(variant, isCustomRange, customTimeRange, timeRange))
    /\ liveDataContainer' =
          IF variant = 1 THEN liveDataContainer
          ELSE AddToLiveDataFeed(liveDataContainer, data)
    /\ isConnected' = TRUE
    /\ lastOutcome' = "up"
    /\ UNCHANGED <<variant, pc, appVars, domVars, nodeStatsContainer,
                   decisionsContainer, mapView, chartsView, awaitingApply, dedupSkipped,
                   liveOverlapped>>

\* isConnected after onmessage with a body JSON.parse rejects: the first
\* class catches and logs, in the second the exception leaves the handler
\* before handleRealtimeUpdate and updateConnectionStatus.
ConnectionAfterKeepalive(v, connected) == connected

SSEKeepalive ==
    /\ pc = "running"
    /\ isConnected' = ConnectionAfterKeepalive(variant, isConnected)
    /\ lastOutcome' = "up"
    /\ UNCHANGED <<variant, pc, appVars, domVars, viewVars, inflight, awaitingApply, dedupSkipped,
                   liveOverlapped>>

\* onerror: updateConnectionStatus(false).
SSEError ==
    /\ pc = "running"
    /\ isConnected' = FALSE
    /\ lastOutcome' = "streamError"
    /\ UNCHANGED <<variant, pc, appVars, domVars, viewVars, inflight, awaitingApply, dedupSkipped,
                   liveOverlapped>>

(* ------------------------------- Next --------------------------------- *)

Next ==
    \/ \E resp \in Responses("liveData") : SettleLiveData(resp)
    \/ \E resp \in Responses("nodeStats") : SettleNodeStats(resp)
    \/ \E resp \in Responses("decisions") : SettleDecisions(resp)
    \/ \E resp \in Responses("map") : SettleNodeLocations(resp)
    \/ \E req \in BagToSet(inflight) : \E resp \in Responses("charts") :
          SettleTimeSeries(req, resp)
    \/ InitComplete
    \/ TickLiveData
    \/ TickNodeStats
    \/ TickDecisions
    \/ TickNodeLocations
    \/ TickTimeSeries
    \/ \E value \in PresetOptions \cup {"custom"} : SelectTimeRangeWhileLoading(value)
    \/ \E value \in PresetOptions \cup {"custom"} : TimeRangeChange(value)
    \/ \E start \in InputTimes : \E end \in InputTimes : ApplyCustomRange(start, end)
    \/ \E value \in HeatMetrics : HeatmapMetricChange(value)
    \/ \E endRead \in ClockReadings : \E startRead \in endRead..(endRead + MaxClockSkew) :
          DownloadCSV(endRead, startRead)
    \/ \E req \in BagToSet(inflight) : \E ok \in BOOLEAN : SettleExport(req, ok)
    \/ \E data \in PushReadings : SSEMessage(data)
    \/ SSEKeepalive
    \/ SSEError

Spec == Init /\ [][Next]_vars

(* ------------------- polling under fair scheduling -------------------- *)

\* What the backend answers here: a failure or an empty array.
PollOutcomes == {Failure, [ok |-> TRUE, data |-> <<>>]}

\* The page left alone: the initial load and the five timers.
NextPolling ==
    \/ \E resp \in PollOutcomes : SettleLiveData(resp)
    \/ \E resp \in PollOutcomes : SettleNodeStats(resp)
    \/ \E resp \in PollOutcomes : SettleDecisions(resp)
    \/ \E resp \in PollOutcomes : SettleNodeLocations(resp)
    \/ \E req \in BagToSet(inflight) : \E resp \in PollOutcomes :
          SettleTimeSeries(req, resp)
    \/ InitComplete
    \/ TickLiveData
    \/ TickNodeStats
    \/ TickDecisions
    \/ TickNodeLocations
    \/ TickTimeSeries

\* Every fetch settles, a continuation that can run does run, and every
\* setInterval timer keeps firing.  The timers have periods of seconds and
\* fire whatever is outstanding; Room lets a timer in only when the fetches
\* of the other resources have settled, so the schedule is also taken to
\* reach, again and again, a moment with nothing outstanding.
FairPolling ==
    /\ []<>(inflight = EmptyBag)
    /\ WF_vars(\E resp \in PollOutcomes : SettleLiveData(resp))
    /\ WF_vars(\E resp \in PollOutcomes : SettleNodeStats(resp))
    /\ WF_vars(\E resp \in PollOutcomes : SettleDecisions(resp))
    /\ WF_vars(\E resp \in PollOutcomes : SettleNodeLocations(resp))
    /\ WF_vars(\E req \in BagToSet(inflight) : \E resp \in PollOutcomes :
                  SettleTimeSeries(req, resp))
    /\ WF_vars(InitComplete)
    /\ SF_vars(TickLiveData)
    /\ SF_vars(TickNodeStats)
    /\ SF_vars(TickDecisions)
    /\ SF_vars(TickNodeLocations)
    /\ SF_vars(TickTimeSeries)

SpecPolling == Init /\ [][NextPolling]_vars /\ FairPolling

(* ----------------- the charts against richer payloads ----------------- *)

\* The page left alone with a backend that answers /timeseries only: the
\* other four fetches fail, the chart timer fires.
NextCharts ==
    \/ SettleLiveData(Failure)
    \/ SettleNodeStats(Failure)
    \/ SettleDecisions(Failure)
    \/ SettleNodeLocations(Failure)
    \/ \E req \in BagToSet(inflight) : \E resp \in RichChartResponses :
          SettleTimeSeries(req, resp)
    \/ InitComplete
    \/ TickTimeSeries

SpecCharts == Init /\ [][NextCharts]_vars

(* ------------------ the map against richer payloads ------------------- *)

\* The page with a backend that answers /nodes/locations only: the map timer
\* fires and the user switches the heat map metric.
NextMap ==
    \/ SettleLiveData(Failure)
    \/ SettleNodeStats(Failure)
    \/ SettleDecisions(Failure)
    \/ \E resp \in RichMapResponsesOf(variant) : SettleNodeLocations(resp)
    \/ \E req \in BagToSet(inflight) : SettleTimeSeries(req, Failure)
    \/ InitComplete
    \/ TickNodeLocations
    \/ \E value \in HeatMetrics : HeatmapMetricChange(value)

SpecMap == Init /\ [][NextMap]_vars

(* ------------------------------ claims -------------------------------- *)

\* The step is the continuation of a fetchAPI call that settled.
FetchSettled ==
    \E req \in BagToSet(inflight) :
        req.res \in Resources /\ inflight' = inflight (-) SetToBag({req})

EmptyOk == [ok |-> TRUE, data |-> <<>>]

\* Outstanding /timeseries requests.
ChartsOutstanding(pending) ==
    BagCardinality([r \in {q \in BagToSet(pending) : q.res = "charts"} |-> pending[r]])

\* C1: every successful fetch response, of any resource and from any trigger,
\* leaves ConnectionState Connected.
C1_SuccessfulFetchConnects ==
    [][(FetchSettled /\ lastOutcome' = "up") => isConnected']_vars

\* C2: ConnectionState reflects the most recent outcome; in particular it is
\* never Connected while the last observed outcome is a fetch failure or a
\* push-stream error.
C2_DisconnectedAfterFailure ==
    lastOutcome \in {"fetchFailed", "streamError"} => ~isConnected

\* C3: a push-stream message whose body does not parse leaves ConnectionState
\* Connected and the live feed unchanged.
C3_KeepaliveConnects ==
    [][SSEKeepalive => (isConnected' /\ liveDataContainer' = liveDataContainer)]_vars

\* C4: replace-on-change (first class): an empty batch clears the live feed; a
\* non-empty batch whose newest timestamp equals the displayed newest
\* timestamp leaves the feed unchanged; feeding the batch again changes nothing.
C4_ClearAndIdempotent ==
    [][\A resp \in Responses("liveData") :
          (variant = 1 /\ resp.ok /\ SettleLiveData(resp)) =>
             /\ Len(resp.data) = 0 => liveDataContainer'.items = <<>>
             /\ ( /\ Len(resp.data) > 0
                  /\ Len(liveDataContainer.items) > 0
                  /\ resp.data[1].timestamp = liveDataContainer.items[1].timestamp )
                   => liveDataContainer' = liveDataContainer
             /\ LiveDataFeedAfter1(liveDataContainer', lastLiveDataTimestamp',
                                   Some(resp.data)) = liveDataContainer'
      ]_vars

\* C4 witness: a batch with the displayed newest timestamp has just been
\* dropped and the feed still shows the earlier batch.
C4_Witness ==
    /\ variant = 1
    /\ dedupSkipped
    /\ Len(liveDataContainer.items) > 0
    /\ lastLiveDataTimestamp = Some(liveDataContainer.items[1].timestamp)

\* C5: replace-on-change (first class): a non-empty batch replaces the whole
\* feed whenever its newest timestamp differs from the displayed one or the
\* feed is empty.
C5_ReplacedWhenChangedOrEmpty ==
    [][\A resp \in Responses("liveData") :
          ( /\ variant = 1
            /\ resp.ok
            /\ Len(resp.data) > 0
            /\ SettleLiveData(resp)
            /\ \/ Len(liveDataContainer.items) = 0
               \/ resp.data[1].timestamp # liveDataContainer.items[1].timestamp )
             => liveDataContainer'.items =
                   SubSeq(resp.data, 1, Min(Len(resp.data), FeedCap))
      ]_vars

\* C6: the live feed never holds more than 10 readings, in either class.
C6_FeedAtMostTen == Len(liveDataContainer.items) <= FeedCap

\* <<hour, minute>> a strictly before <<hour, minute>> b.
Before(a, b) == a[1] < b[1] \/ (a[1] = b[1] /\ a[2] < b[2])

\* C7: applying a custom window is rejected iff start or end is missing or
\* start >= end; a rejected apply issues no request and keeps the applied
\* range and the custom flag; an accepted apply stores the range and issues
\* exactly one time-series request for it.
C7_ApplyCustomRange ==
    [][\A start \in InputTimes : \A end \in InputTimes :
          ApplyCustomRange(start, end) =>
             IF ~IsSome(start) \/ ~IsSome(end) \/ ~Before(start, end)
             THEN /\ inflight' = inflight
                  /\ customTimeRange' = customTimeRange
                  /\ isCustomRange' = isCustomRange
             ELSE /\ customTimeRange' = [start |-> start, end |-> end]
                  /\ isCustomRange'
                  /\ inflight' = inflight (+) SetToBag({Request("charts",
                        [hours |-> "", start |-> start \o <<0>>, end |-> end \o <<0>>])})
      ]_vars

\* C7 witness: a range has been applied and the request for it is outstanding.
C7_Witness ==
    /\ isCustomRange
    /\ IsSome(customTimeRange.start)
    /\ IsSome(customTimeRange.end)
    /\ BagIn(Request("charts", [hours |-> "", start |-> customTimeRange.start \o <<0>>,
                                end |-> customTimeRange.end \o <<0>>]), inflight)

\* C8: from the selection of "custom" until a range is applied, no step
\* issues a time-series request.
C8_NoFetchUntilApplied ==
    [][(awaitingApply /\ awaitingApply') =>
          ChartsOutstanding(inflight') <= ChartsOutstanding(inflight)]_vars

\* C9: a failed fetch of any resource sets ConnectionState to Disconnected and
\* skips the update: every view and the dedup timestamp stay as they were.
C9_FailureSkipsUpdate ==
    [][(FetchSettled /\ lastOutcome' = "fetchFailed") =>
          /\ ~isConnected'
          /\ viewVars' = viewVars
          /\ lastLiveDataTimestamp' = lastLiveDataTimestamp]_vars

\* C9 witness: the last outcome is a failed fetch and the views still show
\* what earlier responses rendered.
C9_Witness ==
    /\ pc = "running"
    /\ lastOutcome = "fetchFailed"
    /\ ~isConnected
    /\ Len(liveDataContainer.items) > 0
    /\ Len(nodeStatsContainer.items) > 0
    /\ Len(decisionsContainer.items) > 0
    /\ Len(mapView.markers) > 0
    /\ Len(chartsView.labels) > 0

\* C10: for every resource a successful response carrying an empty array
\* puts the view in its empty state (previous content gone).
C10_EmptyArrayShowsEmptyState ==
    [][/\ SettleLiveData(EmptyOk) => liveDataContainer'.items = <<>>
       /\ SettleNodeStats(EmptyOk) => nodeStatsContainer'.items = <<>>
       /\ SettleDecisions(EmptyOk) => decisionsContainer'.items = <<>>
       /\ SettleNodeLocations(EmptyOk) => mapView'.markers = <<>>
       /\ \A req \in BagToSet(inflight) :
             SettleTimeSeries(req, EmptyOk) => chartsView'.labels = <<>>
      ]_vars

\* The export requests outstanding.
Exports(pending) == {r \in BagToSet(pending) : r.res = "export"}

\* The instant an ISO value <<day, hour, minute, second, millisecond>> names.
InstantOf(iso) ==
    iso[1] * 86400000 + iso[2] * 3600000 + iso[3] * 60000 + iso[4] * 1000 + iso[5]

IsISO(iso) ==
    /\ Len(iso) = 5
    /\ iso[2] \in 0..23
    /\ iso[3] \in 0..59
    /\ iso[4] \in 0..59
    /\ iso[5] \in 0..999

\* C13: with a preset of H hours selected and custom mode off, the export
\* request carries end = the clock reading as a UTC instant and start = the
\* clock reading minus H hours as a UTC instant, and no hours parameter.  The
\* handler reads the clock once for each bound; read at
\* 2024-01-02T00:00:00Z with H = 24 the bounds are 2024-01-01T00:00:00Z and
\* 2024-01-02T00:00:00Z.
C13_PresetExportWindow ==
    [][\A endRead \in ClockReadings : \A startRead \in endRead..(endRead + MaxClockSkew) :
          ( /\ DownloadCSV(endRead, startRead)
            /\ timeRange \in {"6", "24"}
            /\ ~isCustomRange )
          => LET H == IF timeRange = "6" THEN 6 ELSE 24
             IN  \E req \in Exports(inflight') :
                   /\ req.ep.hours = ""
                   /\ IsISO(req.ep.end)
                   /\ IsISO(req.ep.start)
                   /\ InstantOf(req.ep.end) = endRead
                   /\ InstantOf(req.ep.start) = startRead - H * 3600000
                   /\ (H = 24 /\ endRead = 86400000 /\ startRead = endRead)
                         => (req.ep.start = <<0, 0, 0, 0, 0>> /\ req.ep.end = <<1, 0, 0, 0, 0>>)
      ]_vars

\* C13 witness: an export for the preset of 6 hours is outstanding whose
\* window starts on the day before the one it ends on.
C13_Witness ==
    /\ timeRange = "6"
    /\ ~isCustomRange
    /\ \E req \in Exports(inflight) :
          Len(req.ep.start) = 5 /\ Len(req.ep.end) = 5 /\ req.ep.start[1] < req.ep.end[1]

\* C14: with "custom" selected and no range confirmed, a click on the export
\* button issues no request.
C14_UnconfirmedExportSkipped ==
    [][\A endRead \in ClockReadings : \A startRead \in endRead..(endRead + MaxClockSkew) :
          ( /\ DownloadCSV(endRead, startRead)
            /\ timeRange = "custom"
            /\ awaitingApply
            /\ customTimeRange = NoRange )
          => inflight' = inflight
      ]_vars

\* C20: while custom mode is on and a range is applied, every time-series
\* request and every export request issued carries start and end equal to the
\* applied values followed by the zero seconds and no hours parameter.
C20_SameBoundsWithSeconds ==
    [][( /\ isCustomRange'
         /\ IsSome(customTimeRange'.start)
         /\ IsSome(customTimeRange'.end) )
       => \A req \in BagToSet(inflight') :
             ( /\ req.res \in {"charts", "export"}
               /\ CopiesIn(req, inflight') > CopiesIn(req, inflight) )
             => req.ep = [hours |-> "",
                          start |-> customTimeRange'.start \o <<0>>,
                          end |-> customTimeRange'.end \o <<0>>]
      ]_vars

\* C20 witness: an export request for the applied range is outstanding.
C20_Witness ==
    /\ isCustomRange
    /\ IsSome(customTimeRange.start)
    /\ \E req \in Exports(inflight) :
          /\ req.ep.start = customTimeRange.start \o <<0>>
          /\ req.ep.end = customTimeRange.end \o <<0>>
          /\ Len(req.ep.start) = 3

\* s is a prefix of t.
IsPrefix(s, t) == Len(s) <= Len(t) /\ \A i \in 1..Len(s) : s[i] = t[i]

\* Outstanding requests for a resource.
Outstanding(pending, res) ==
    BagCardinality([r \in {q \in BagToSet(pending) : q.res = res} |-> pending[r]])

\* C11: on startup the five fetches are outstanding before any completes;
\* they complete in any order; each completion leaves the other requests
\* outstanding and the other views alone; a successful one shows its own
\* payload in its own view, whatever the other four did.
C11_StartupFetchesIndependent ==
    /\ []((pc = "loading" /\ lastOutcome = "none") =>
             \A res \in Resources : Outstanding(inflight, res) = 1)
    /\ []((pc = "settled") => inflight = EmptyBag)
    /\ [][pc = "loading" =>
           /\ \A resp \in Responses("liveData") : SettleLiveData(resp) =>
                 /\ \A res \in Resources \ {"liveData"} :
                       Outstanding(inflight', res) = Outstanding(inflight, res)
                 /\ resp.ok =>
                       /\ IsPrefix(liveDataContainer'.items, resp.data)
                       /\ Len(liveDataContainer'.items) >= Min(Len(resp.data), FeedCap)
           /\ \A resp \in Responses("nodeStats") : SettleNodeStats(resp) =>
                 /\ \A res \in Resources \ {"nodeStats"} :
                       Outstanding(inflight', res) = Outstanding(inflight, res)
                 /\ resp.ok => nodeStatsContainer'.items = resp.data
           /\ \A resp \in Responses("decisions") : SettleDecisions(resp) =>
                 /\ \A res \in Resources \ {"decisions"} :
                       Outstanding(inflight', res) = Outstanding(inflight, res)
                 /\ resp.ok => decisionsContainer'.items = resp.data
           /\ \A resp \in Responses("map") : SettleNodeLocations(resp) =>
                 /\ \A res \in Resources \ {"map"} :
                       Outstanding(inflight', res) = Outstanding(inflight, res)
                 /\ resp.ok =>
                       /\ Len(mapView'.markers) = Len(resp.data)
                       /\ \A i \in 1..Len(resp.data) :
                             mapView'.markers[i] = <<resp.data[i].lat, resp.data[i].lon>>
           /\ \A req \in BagToSet(inflight) : \A resp \in Responses("charts") :
                 SettleTimeSeries(req, resp) =>
                 /\ \A res \in Resources \ {"charts"} :
                       Outstanding(inflight', res) = Outstanding(inflight, res)
                 /\ resp.ok =>
                       /\ Len(resp.data) = 0 => chartsView' = NoCharts
                       /\ Len(chartsView'.labels) = Len(resp.data)
                       /\ \A i \in 1..Len(resp.data) :
                             \E k \in 1..Len(chartsView'.temperature) :
                                /\ chartsView'.temperature[k].label = resp.data[i].node_id
                                /\ \E j \in 1..Len(chartsView'.temperature[k].data) :
                                      chartsView'.temperature[k].data[j] = resp.data[i].avg_temp
      ]_vars

\* C11 witness: the initial load has completed, the last fetch to complete
\* failed, and the views of fetches that succeeded show their payloads while
\* others still show what the page started with.
C11_Witness ==
    /\ pc = "settled"
    /\ lastOutcome = "fetchFailed"
    /\ Len(nodeStatsContainer.items) > 0
    /\ Len(chartsView.labels) > 0
    /\ decisionsContainer = Placeholder
    /\ mapView = NoMap

\* C12: every push-stream message starts a time-series fetch at once (unless
\* "custom" is selected), and in the class that also handles the pushed
\* reading a node-stats and a decisions fetch as well.
C12_MessageRefetchesTimeSeries ==
    [][\A data \in PushReadings :
          (SSEMessage(data) /\ timeRange # "custom") =>
             /\ Outstanding(inflight', "charts") = Outstanding(inflight, "charts") + 1
             /\ variant = 2 =>
                   /\ Outstanding(inflight', "nodeStats") = Outstanding(inflight, "nodeStats") + 1
                   /\ Outstanding(inflight', "decisions") = Outstanding(inflight, "decisions") + 1
      ]_vars

\* C18: no time-series response is filtered: whichever request it answers,
\* the window of that request selected or not, after a successful response
\* the charts show the payload of that response.
C18_LastResponseWins ==
    [][\A req \in BagToSet(inflight) : \A resp \in Responses("charts") :
          (resp.ok /\ SettleTimeSeries(req, resp)) =>
             /\ Len(chartsView'.labels) = Len(resp.data)
             /\ Len(chartsView'.temperature) = Len(NodeIds(resp.data))
      ]_vars

\* C19: prepend-with-cap (second class): a pushed reading becomes the first
\* item, the items already shown keep their order behind it, items leave
\* only from the back and only down to 10, the placeholder goes, and a feed
\* that showed no item shows exactly the pushed reading.
C19_PrependWithCap ==
    [][\A data \in PushReadings :
          (variant = 2 /\ SSEMessage(data)) =>
             LET old == liveDataContainer.items
                 new == liveDataContainer'.items
             IN  /\ ~liveDataContainer'.loading
                 /\ new[1] = data
                 /\ IsPrefix(Tail(new), old)
                 /\ Len(new) = Min(Len(old) + 1, FeedCap)
                 /\ Len(old) = 0 => new = <<data>>
      ]_vars

\* C19 witness: a pushed reading heads a feed of 10 from which the oldest
\* polled readings were evicted.
C19_Witness ==
    /\ variant = 2
    /\ Len(liveDataContainer.items) = FeedCap
    /\ liveDataContainer.items[1] \in PushReadings
    /\ liveDataContainer.items[2] \notin PushReadings
    /\ liveDataContainer.items[FeedCap].timestamp =
          liveDataContainer.items[2].timestamp - (FeedCap - 2)

\* The value a point has for the chart of avg_temp at a label, as a set: the
\* values of the node's points whose formatted timestamp is the label.
ValuesAt(data, nodeId, label) ==
    {data[i].avg_temp : i \in {j \in 1..Len(data) :
        data[j].node_id = nodeId /\ FormatLabel(data[j].timestamp) = label}}

\* C15: every dataset the charts show has one entry per label; entry i is the
\* node's value for the point at label i, or a gap (None) when the node has
\* no point at that label.
C15_DatasetsAlignedWithLabels ==
    [][\A req \in BagToSet(inflight) : \A resp \in RichChartResponses :
          (resp.ok /\ Len(resp.data) > 0 /\ SettleTimeSeries(req, resp)) =>
             \A k \in 1..Len(chartsView'.temperature) :
                LET set == chartsView'.temperature[k]
                IN  /\ Len(set.data) = Len(chartsView'.labels)
                    /\ \A i \in 1..Len(set.data) :
                          LET at == ValuesAt(resp.data, set.label, chartsView'.labels[i])
                          IN  IF at = {} THEN set.data[i] = None
                              ELSE set.data[i] \in at
      ]_vars

\* A location carries lat, lon and the average of the selected metric.
Complete(location, metric) ==
    /\ IsSome(location.lat)
    /\ IsSome(location.lon)
    /\ IsSome(IF metric = "temperature" THEN location.avg_temp
              ELSE location.avg_humidity)

\* C16: the heat layer gets no tuple for a location that lacks lat, lon or
\* the average of the selected metric: there are at most as many tuples as
\* locations carrying all three.
C16_NoHeatForIncompleteLocation ==
    [][\A resp \in RichMapResponses :
          (resp.ok /\ Len(resp.data) > 0 /\ SettleNodeLocations(resp)) =>
             Len(mapView'.heat) <=
                Len(SelectSeq(resp.data, LAMBDA l : Complete(l, heatmapMetric)))
      ]_vars

C21_FailedExportDisconnects ==
    [][\A req \in BagToSet(inflight) : SettleExport(req, FALSE) => ~isConnected']_vars

\* The average a location carries for the selected metric: the field the
\* metric names in the first class ('avg_' followed by the select's value),
\* the field of the switch in the second.
SelectedAverage(v, location, metric) ==
    IF v = 1 THEN MetricValue1(location, metric)
    ELSE IF metric = "temperature" THEN location.avg_temp
    ELSE location.avg_humidity

\* The heat tuple the dashboard owes a complete location: the raw average in
\* the first class, the average over 100 in the second.
HeatTupleOf(v, location, metric) ==
    LET avg == SelectedAverage(v, location, metric)
    IN  IF v = 1 THEN <<location.lat[1], location.lon[1], avg[1]>>
        ELSE <<location.lat, location.lon, <<avg[1], 100>>>>

Occurrences(seq, x) == Cardinality({i \in 1..Len(seq) : seq[i] = x})

\* C22: every location of a rendered response that carries lat, lon (a 0
\* included) and the average of the selected metric (a 0 included) gets its
\* heat tuple (lat, lon, intensity), once for each time it is listed.
C22_HeatTupleForEveryCompleteLocation ==
    [][\A resp \in RichMapResponses :
          (resp.ok /\ Len(resp.data) > 0 /\ SettleNodeLocations(resp)) =>
             \A i \in 1..Len(resp.data) :
                (/\ IsSome(resp.data[i].lat)
                 /\ IsSome(resp.data[i].lon)
                 /\ IsSome(SelectedAverage(variant, resp.data[i], heatmapMetric))) =>
                   Occurrences(mapView'.heat,
                               HeatTupleOf(variant, resp.data[i], heatmapMetric))
                      >= Occurrences(resp.data, resp.data[i])
      ]_vars

\* C23: until the five initial fetches have all settled nothing but their
\* continuations runs: no request is started (no tick, no stream message, no
\* listener), no stream event touches the connection state, a change of the
\* time-range select is handled by nobody; the stream, the timers and the
\* listeners are installed when the last initial fetch has settled, whatever
\* the outcomes were.
C23_InstalledAfterInitialLoad ==
    /\ [][pc # "running" =>
             /\ \A req \in BagToSet(inflight') : CopiesIn(req, inflight') <= CopiesIn(req, inflight)
             /\ lastOutcome' \in {lastOutcome, "up", "fetchFailed"}
             /\ lastOutcome' # lastOutcome => BagCardinality(inflight') < BagCardinality(inflight)
             /\ (isConnected' /\ ~isConnected) => pc' = "running"
             /\ UNCHANGED <<customTimeRange, isCustomRange, customRangeControls, heatmapMetric>>
             /\ timeRange' # timeRange =>
                   UNCHANGED <<inflight, viewVars, pc, isConnected, lastOutcome>>
             /\ pc' = "running" => (pc = "settled" /\ inflight = EmptyBag)
         ]_vars
    /\ [](pc = "settled" => ENABLED InitComplete)

\* C23 witness: all five initial fetches failed and the dashboard runs, a
\* timer having fetched since.
C23_Witness ==
    /\ pc = "running"
    /\ lastOutcome = "fetchFailed"
    /\ liveDataContainer = Placeholder
    /\ nodeStatsContainer = Placeholder
    /\ decisionsContainer = Placeholder
    /\ mapView = NoMap
    /\ chartsView = NoCharts
    /\ Outstanding(inflight, "liveData") > 0

\* A batch that moves the marker: an array with a first item whose timestamp
\* is not the marker.
MovesMarker(resp) ==
    /\ resp.ok
    /\ Len(resp.data) > 0
    /\ lastLiveDataTimestamp # Some(resp.data[1].timestamp)

\* C24: lastLiveDataTimestamp changes only when a /latest response of the
\* first class brings a non-empty batch whose newest timestamp differs from
\* it, and then becomes that timestamp, the batch being the one rendered;
\* every other step (failed fetch, empty batch, same-head batch, stream
\* event, another resource's fetch, timers, user actions) leaves it as it
\* was; while the feed shows items the marker is the timestamp of the first.
C24_MarkerFollowsRenderedBatch ==
    /\ [][/\ \A resp \in Responses("liveData") :
               (variant = 1 /\ MovesMarker(resp) /\ SettleLiveData(resp)) =>
                   /\ lastLiveDataTimestamp' = Some(resp.data[1].timestamp)
                   /\ liveDataContainer'.items # <<>>
                   /\ liveDataContainer'.items[1] = resp.data[1]
          /\ lastLiveDataTimestamp' # lastLiveDataTimestamp =>
                /\ variant = 1
                /\ \E resp \in Responses("liveData") :
                      MovesMarker(resp) /\ SettleLiveData(resp)
         ]_vars
    /\ []((variant = 1 /\ liveDataContainer.items # <<>>) =>
             lastLiveDataTimestamp = Some(liveDataContainer.items[1].timestamp))

\* C24 witness: the marker was set by a rendered batch and an empty batch has
\* cleared the feed since, leaving the marker.
C24_Witness ==
    /\ variant = 1
    /\ IsSome(lastLiveDataTimestamp)
    /\ liveDataContainer = Placeholder
    /\ lastOutcome = "up"

\* C25: when /latest requests overlap and a response arrives for a request
\* that was already in flight when the batch on display was processed, the
\* newest timestamp on display does not move backwards.
C25_FeedNeverMovesBackwards ==
    [][\A resp \in Responses("liveData") :
          (/\ liveOverlapped
           /\ SettleLiveData(resp)
           /\ liveDataContainer.items # <<>>
           /\ liveDataContainer'.items # <<>>) =>
             liveDataContainer'.items[1].timestamp >= liveDataContainer.items[1].timestamp
      ]_vars

====
